---- MODULE Spec2Model ----
(***************************************************************************)
(* Model of the fuel-price dashboard server (src/src/main.rs): the         *)
(* password gate (/login, cookie check), the dashboard handler (/), the    *)
(* health check, and the price resolution fetch_lenz_energie_station.      *)
(*                                                                         *)
(* Strings whose contents the code inspects (station names and brands,     *)
(* cookie headers) are sequences of one-character strings.  Prices (f64)   *)
(* are integers in thousandths of a euro.  A JSON value is a record with   *)
(* a "type" field; an Option is None or Some(x).                           *)
(***************************************************************************)
EXTENDS Integers, Sequences, FiniteSets, Bags, TLC

VARIABLES
    env,        \* the process environment: DASHBOARD_PASSWORD, set or not
    jar,        \* the browser's cookie jar: a sequence of cookie pairs
    inflight,   \* the bag of dashboard handlers suspended at the upstream .await
    out,        \* the response most recently sent
    rec,        \* history: one earlier (upstream outcome, quote) pair
    loggedIn    \* history: the browser has completed a successful login

vars == <<env, jar, inflight, out, rec, loggedIn>>

(***************************************************************************)
(* Bounds of the model.                                                    *)
(***************************************************************************)
MaxStations == 2      \* longest "stations" array in an upstream response
MaxInFlight == 2      \* dashboard requests that may be suspended at once
MaxCookieHeaders == 1 \* Cookie header lines a forged request carries

(***************************************************************************)
(* Option<T>                                                               *)
(***************************************************************************)
None == [type |-> "None"]
Some(x) == [type |-> "Some", val |-> x]
IsSome(o) == o.type = "Some"
IsNone(o) == o.type = "None"

(***************************************************************************)
(* Strings as character sequences.                                         *)
(***************************************************************************)
UpperAlpha == <<"A","B","C","D","E","F","G","H","I","J","K","L","M",
                "N","O","P","Q","R","S","T","U","V","W","X","Y","Z">>
LowerAlpha == <<"a","b","c","d","e","f","g","h","i","j","k","l","m",
                "n","o","p","q","r","s","t","u","v","w","x","y","z">>

lower_char(c) ==
    IF \E i \in DOMAIN UpperAlpha : UpperAlpha[i] = c
    THEN LowerAlpha[CHOOSE i \in DOMAIN UpperAlpha : UpperAlpha[i] = c]
    ELSE c

\* str::to_lowercase
to_lowercase(s) == [i \in 1..Len(s) |-> lower_char(s[i])]

\* str::contains(&str)
contains(hay, needle) ==
    \E i \in 0..(Len(hay) - Len(needle)) :
        \A j \in 1..Len(needle) : hay[i + j] = needle[j]

Lenz == <<"l","e","n","z">>
Esso == <<"E","s","s","o">>
LenzEnergie == <<"L","e","n","z"," ","E","n","e","r","g","i","e">>
LENZ_Tank == <<"L","E","N","Z"," ","T","a","n","k">>
LenzBrand == <<"L","e","n","z">>
LenBrand == <<"L","e","n">>
EmptyStr == << >>

(***************************************************************************)
(* serde_json::Value.  An object is a function from its keys to values;    *)
(* a key the object lacks maps to Absent.                                  *)
(***************************************************************************)
Absent == [type |-> "Absent"]
JNull == [type |-> "Null"]
JBool(b) == [type |-> "Bool", b |-> b]
JNumber(n) == [type |-> "Number", n |-> n]
JString(s) == [type |-> "String", s |-> s]
JArray(a) == [type |-> "Array", a |-> a]
JObject(o) == [type |-> "Object", o |-> o]

\* Value::get(key)
get(v, key) ==
    IF v.type = "Object" /\ key \in DOMAIN v.o /\ v.o[key].type # "Absent"
    THEN Some(v.o[key])
    ELSE None

\* Value::as_bool, as_array, as_str, as_f64 applied under Option::and_then
as_bool(o) == IF IsSome(o) /\ o.val.type = "Bool" THEN Some(o.val.b) ELSE None
as_array(o) == IF IsSome(o) /\ o.val.type = "Array" THEN Some(o.val.a) ELSE None
as_str(o) == IF IsSome(o) /\ o.val.type = "String" THEN Some(o.val.s) ELSE None
as_f64(o) == IF IsSome(o) /\ o.val.type = "Number" THEN Some(o.val.n) ELSE None

unwrap_or(o, d) == IF IsSome(o) THEN o.val ELSE d

(***************************************************************************)
(* PriceData and the upstream outcomes.                                    *)
(***************************************************************************)
\* The source writes the label with U+2014 and the placeholder as U+2013.
StationLabel == "Lenz Energie - Lenz Energie AG"
Live == "Live"
Dash == "-"

PriceData(e5, e10, diesel, updated) ==
    [station_name |-> StationLabel, e5 |-> e5, e10 |-> e10,
     diesel |-> diesel, updated |-> updated]

\* dashboard: let default_fallback = PriceData { .. }
\* (StaleFallback: the quote of the previous response kept as the fallback.)
StaleFallback ==
    IF IsSome(out.data) THEN out.data.val ELSE PriceData(0, 0, 0, Dash)

default_fallback == PriceData(0, 0, 0, Dash)

\* What the upstream call can end in.
NetworkError == [kind |-> "NetworkError"]
Timeout == [kind |-> "Timeout"]
NotJson == [type |-> "NotJson"]          \* a body that is not JSON
ReadError == [type |-> "ReadError"]      \* the body could not be read in time
Response(status, body) == [kind |-> "Response", status |-> status, body |-> body]

\* http_client().get(&url).send().await.ok()
\* reqwest reports a transport failure as Err; a response of any status is Ok.
send_ok(outcome) == IF outcome.kind = "Response" THEN Some(outcome) ELSE None

\* resp.json().await.ok()
json_ok(resp) ==
    IF resp.body.type \in {"NotJson", "ReadError"} THEN None ELSE Some(resp.body)

\* if !json.get("ok")?.as_bool()? { return None; }   -- TRUE: the payload passes
\* (OkGateLenient: an absent or non-boolean flag lets the payload through.)
OkGateLenient(json) ==
    LET ok == as_bool(get(json, "ok")) IN IF IsSome(ok) THEN ok.val ELSE TRUE

ok_gate(json) ==
    LET ok == as_bool(get(json, "ok")) IN IsSome(ok) /\ ok.val

\* the closure of stations.iter().find(..)
\* (MatchesAny: the filter dropped, every station matches.)
MatchesAny(s) == TRUE

station_matches(s) ==
    LET name == unwrap_or(as_str(get(s, "name")), EmptyStr)
        brand == unwrap_or(as_str(get(s, "brand")), EmptyStr)
    IN  contains(to_lowercase(name), Lenz) \/ contains(to_lowercase(brand), Lenz)

\* stations.iter().find(..): the first station, in list order, that matches
find_station(stations) ==
    IF \E i \in 1..Len(stations) : station_matches(stations[i])
    THEN Some(stations[CHOOSE i \in 1..Len(stations) :
                  /\ station_matches(stations[i])
                  /\ \A j \in 1..(i - 1) : ~station_matches(stations[j])])
    ELSE None

\* station.get(key).and_then(|v| v.as_f64()).unwrap_or(0.0)
price_field(station, key) == unwrap_or(as_f64(get(station, key)), 0)

\* the (unused) display name: brand and name, or the name alone
station_name_of(station) ==
    LET name == as_str(get(station, "name")).val
        brand == unwrap_or(as_str(get(station, "brand")), EmptyStr)
    IN  IF brand = EmptyStr THEN name ELSE brand \o <<" ">> \o name

\* from the selected station to the end of fetch_lenz_energie_station
build_quote(station) ==
    IF IsNone(as_str(get(station, "name")))     \* station.get("name")?.as_str()?
    THEN None
    ELSE Some(PriceData(price_field(station, "e5"), price_field(station, "e10"),
                        price_field(station, "diesel"), Live))

\* fetch_lenz_energie_station, from the outcome of the one upstream call
fetch_lenz_energie_station(outcome) ==
    LET resp == send_ok(outcome) IN
    IF IsNone(resp) THEN None ELSE
    LET json == json_ok(resp.val) IN
    IF IsNone(json) THEN None ELSE
    IF ~ok_gate(json.val) THEN None ELSE
    LET stations == as_array(get(json.val, "stations")) IN
    IF IsNone(stations) THEN None ELSE
    LET station == find_station(stations.val) IN
    IF IsNone(station) THEN None ELSE
    build_quote(station.val)

(***************************************************************************)
(* The password gate.                                                      *)
(***************************************************************************)
AuthToken == <<"a","u","t","h","_","t","o","k","e","n","=",
               "a","u","t","h","e","n","t","i","c","a","t","e","d">>
CookieAttributes ==
    <<";"," ","P","a","t","h","=","/",";"," ","M","a","x","-","A","g","e","=",
      "3","1","5","3","6","0","0","0","0",";"," ","H","t","t","p","O","n","l","y",
      ";"," ","S","a","m","e","S","i","t","e","=","L","a","x">>

\* A byte outside visible ASCII, as one character of a header value.
HighByte == "0xFC"

\* HeaderValue::to_str().unwrap_or("")
to_str_or_empty(h) == IF \E i \in 1..Len(h) : h[i] = HighByte THEN EmptyStr ELSE h

\* is_authenticated: some Cookie header line contains the token
\* (AnyCookieAuthenticates: the presence of a Cookie header is taken as proof.)
AnyCookieAuthenticates(headers) == Len(headers) > 0

is_authenticated(headers) ==
    \E k \in 1..Len(headers) : contains(to_str_or_empty(headers[k]), AuthToken)

\* create_auth_cookie_header
create_auth_cookie_header == AuthToken \o CookieAttributes

\* login: env::var("DASHBOARD_PASSWORD").unwrap_or_else(|_| "911930")
DefaultPassword == "911930"
expected_password == unwrap_or(env.DASHBOARD_PASSWORD, DefaultPassword)

\* login: form.password == expected_password
password_accepted(password) == password = expected_password

(***************************************************************************)
(* The browser: keeps the name=value part of a Set-Cookie header and       *)
(* replays its jar as one Cookie header line.                              *)
(***************************************************************************)
cookie_pair(set_cookie) ==
    IF \E i \in 1..Len(set_cookie) : set_cookie[i] = ";"
    THEN SubSeq(set_cookie, 1,
                (CHOOSE i \in 1..Len(set_cookie) :
                    /\ set_cookie[i] = ";"
                    /\ \A j \in 1..(i - 1) : set_cookie[j] # ";") - 1)
    ELSE set_cookie

BrowserHeaders == jar

(***************************************************************************)
(* Responses and suspended handlers.                                       *)
(***************************************************************************)
NoResponse ==
    [who |-> "nobody", path |-> "none", page |-> "none", set_cookie |-> None,
     data |-> None, calls |-> << >>, upstream |-> None, carried |-> FALSE,
     password |-> ""]

\* a dashboard handler suspended at the await of its upstream call
Suspended(w, calls, carried) == [who |-> w, calls |-> calls, carried |-> carried]

Clients == {"browser", "stranger"}

\* The claim-side reading of "carries a cookie containing the token".
CarriesToken(headers) ==
    \E k \in 1..Len(headers) : contains(headers[k], AuthToken)

\* the outbound call of fetch_lenz_energie_station: one GET of list.php
\* (IssueCallTwice: the call is sent again after the first attempt.)
IssueCallTwice(calls) == calls \o <<"list.php", "list.php">>

issue_call(calls) == Append(calls, "list.php")

\* dashboard, after the await: unwrap_or(default_fallback), then the page
\* (RespondStrict: a failed fetch is answered with an error page.)
RespondStrict(fetched) ==
    IF IsSome(fetched)
    THEN [page |-> "dashboard", data |-> fetched]
    ELSE [page |-> "error", data |-> None]

respond(fetched) ==
    [page |-> "dashboard", data |-> Some(unwrap_or(fetched, default_fallback))]

(***************************************************************************)
(* Inputs: what clients send and what the upstream API can answer.         *)
(***************************************************************************)
SeqsUpTo(S, n) == UNION {[1..k -> S] : k \in 0..n}

Station(name, brand, e5, e10, diesel) ==
    JObject([name |-> name, brand |-> brand, e5 |-> e5, e10 |-> e10,
             diesel |-> diesel])

Body(ok, stations) == JObject([ok |-> ok, stations |-> stations])

NotANumber == JString(<<"1", ".", "7">>)

StationLenz ==
    Station(JString(LenzEnergie), JString(LenzBrand),
            JNumber(1799), JNumber(1739), JNumber(1699))
StationEsso ==
    Station(JString(Esso), JString(Esso),
            JNumber(1819), JNumber(1759), JNumber(1719))
StationBrandOnly ==
    Station(Absent, JString(LenzBrand),
            JNumber(1809), JNumber(1749), JNumber(1709))

\* name and brand of the stations of the larger input set
NameBrands ==
    { <<JString(Esso), JString(Esso)>>,
      <<JString(Esso), Absent>>,
      <<JString(LenBrand), JNumber(7)>>,
      <<JString(LENZ_Tank), Absent>>,
      <<JString(Esso), JString(LenzBrand)>>,
      <<JNumber(7), JString(LenzBrand)>>,
      <<JNull, JString(LenzEnergie)>> }

\* the price fields of one station, each present and numeric or not
PriceTriples ==
    { <<e5, e10, diesel>> :
        e5 \in {JNumber(1799), Absent, NotANumber},
        e10 \in {JNumber(1739), Absent, JNull},
        diesel \in {JNumber(1699), NotANumber, JBool(TRUE)} }

RichStations ==
    {StationLenz, StationEsso, StationBrandOnly, JNull}
    \cup { Station(nb[1], nb[2], JNumber(1829), JNumber(1769), JNumber(1729)) :
             nb \in NameBrands }
    \cup { Station(JString(LenzEnergie), JString(LenzBrand), t[1], t[2], t[3]) :
             t \in PriceTriples }

Statuses == {200, 403, 500}

Unparsed == {NotJson, ReadError}
WrongShape == {JNull, JArray(<< >>), JString(Lenz), JObject([error |-> JBool(TRUE)])}

OkValues == {Absent, JBool(TRUE), JBool(FALSE), JString(<<"t","r","u","e">>),
             JNull, JNumber(1)}
GateStations ==
    {Absent, JNull, JString(Lenz), JArray(<< >>), JArray(<<StationLenz>>),
     JArray(<<StationEsso, StationLenz>>), JArray(<<StationBrandOnly>>)}

\* outcomes without a trusted station list, under any HTTP status
GateOutcomes ==
    {NetworkError, Timeout}
    \cup { Response(st, b) : st \in Statuses, b \in Unparsed \cup WrongShape }
    \cup { Response(st, Body(ok, l)) :
             st \in Statuses, ok \in OkValues, l \in GateStations }

\* a 200 response with "ok": true and the given station list
ListOutcome(l) == Response(200, Body(JBool(TRUE), JArray(l)))

\* the outcomes the server specification draws from
SmallOutcomes ==
    {NetworkError, Timeout, Response(200, NotJson), Response(500, NotJson),
     Response(200, JArray(<< >>)),
     Response(200, Body(JBool(FALSE), JArray(<<StationLenz>>))),
     Response(500, Body(JBool(TRUE), JArray(<<StationLenz>>))),
     ListOutcome(<< >>), ListOutcome(<<StationEsso>>),
     ListOutcome(<<StationLenz>>), ListOutcome(<<StationEsso, StationLenz>>),
     ListOutcome(<<StationBrandOnly, StationLenz>>)}

\* Cookie header lines a client other than the browser may forge
ForgedLines ==
    { AuthToken,
      <<"s","i","d","=","1",";"," ">> \o AuthToken,
      AuthToken \o <<HighByte>>,
      SubSeq(AuthToken, 1, Len(AuthToken) - 1),
      <<"a","u","t","h","_","t","o","k","e","n","=","n","o">> }
ForgedHeaders == SeqsUpTo(ForgedLines, MaxCookieHeaders)

Passwords == {DefaultPassword, "hunter2", ""}

\* DASHBOARD_PASSWORD as the process may find it at start
Environments ==
    {[DASHBOARD_PASSWORD |-> None], [DASHBOARD_PASSWORD |-> Some("hunter2")]}

(***************************************************************************)
(* Handlers.                                                               *)
(***************************************************************************)
\* health
HealthRequest(w) ==
    /\ out' = [NoResponse EXCEPT !.who = w, !.path = "/health", !.page = "ok"]
    /\ UNCHANGED <<env, jar, inflight, rec, loggedIn>>

\* login; the browser stores the cookie of the response
LoginRequest(w, password) ==
    /\ out' = IF password_accepted(password)
              THEN [NoResponse EXCEPT !.who = w, !.path = "/login",
                       !.page = "redirect", !.password = password,
                       !.set_cookie = Some(create_auth_cookie_header)]
              ELSE [NoResponse EXCEPT !.who = w, !.path = "/login",
                       !.page = "wrong_password", !.password = password]
    /\ IF w = "browser" /\ IsSome(out'.set_cookie)
       THEN /\ jar' = <<cookie_pair(out'.set_cookie.val)>>
            /\ loggedIn' = TRUE
       ELSE UNCHANGED <<env, jar, loggedIn>>
    /\ UNCHANGED <<env, inflight, rec>>

\* dashboard, to the first await: the cookie check, then the upstream call
DashboardRequest(w, headers) ==
    /\ is_authenticated(headers) => BagCardinality(inflight) < MaxInFlight
    /\ IF ~is_authenticated(headers)
       THEN /\ out' = [NoResponse EXCEPT !.who = w, !.path = "/",
                          !.page = "login", !.carried = CarriesToken(headers)]
            /\ UNCHANGED inflight
       ELSE /\ inflight' = inflight (+) SetToBag(
                   {Suspended(w, issue_call(<< >>), CarriesToken(headers))})
            /\ UNCHANGED out
    /\ UNCHANGED <<env, jar, rec, loggedIn>>

\* dashboard, from the upstream outcome to the response
DashboardResume(h, outcome) ==
    /\ BagIn(h, inflight)
    /\ LET r == respond(fetch_lenz_energie_station(outcome)) IN
       out' = [NoResponse EXCEPT !.who = h.who, !.path = "/",
                  !.page = r.page, !.data = r.data, !.calls = h.calls,
                  !.upstream = Some(outcome), !.carried = h.carried]
    /\ inflight' = inflight (-) SetToBag({h})
    /\ UNCHANGED <<env, jar, loggedIn>>

\* history: the first resolution kept is compared with all later ones
NothingKept == [upstream |-> None, data |-> None, who |-> "nobody"]

Remember ==
    \/ /\ rec = NothingKept
       /\ rec' = [upstream |-> out'.upstream, data |-> out'.data,
                  who |-> out'.who]
    \/ UNCHANGED rec

(***************************************************************************)
(* The server: any client, any request, any interleaving.                  *)
(***************************************************************************)
Init ==
    /\ env \in Environments
    /\ jar = << >>
    /\ inflight = EmptyBag
    /\ out = NoResponse
    /\ rec = NothingKept
    /\ loggedIn = FALSE

Health == \E w \in Clients : HealthRequest(w)
Login == \E w \in Clients, password \in Passwords : LoginRequest(w, password)
BrowserDashboard == DashboardRequest("browser", BrowserHeaders)
StrangerDashboard == \E h \in ForgedHeaders : DashboardRequest("stranger", h)
UpstreamAnswers ==
    \E h \in BagToSet(inflight), o \in SmallOutcomes :
        DashboardResume(h, o) /\ Remember

Next ==
    \/ Health
    \/ Login
    \/ BrowserDashboard
    \/ StrangerDashboard
    \/ UpstreamAnswers

Spec == Init /\ [][Next]_vars

(***************************************************************************)
(* One authenticated request, resolved against every upstream outcome of   *)
(* the larger input set.                                                   *)
(***************************************************************************)
InitResolve ==
    /\ env \in Environments
    /\ jar = <<cookie_pair(create_auth_cookie_header)>>
    /\ inflight = EmptyBag
    /\ out = NoResponse
    /\ rec = NothingKept
    /\ loggedIn = TRUE

FirstRequest ==
    /\ out = NoResponse
    /\ inflight = EmptyBag
    /\ DashboardRequest("browser", BrowserHeaders)

ResolveGate ==
    \E h \in BagToSet(inflight), o \in GateOutcomes :
        DashboardResume(h, o) /\ UNCHANGED rec

ResolveStations ==
    \E h \in BagToSet(inflight), k \in 0..MaxStations :
        \E l \in [1..k -> RichStations] :
            DashboardResume(h, ListOutcome(l)) /\ UNCHANGED rec

NextResolve == FirstRequest \/ ResolveGate \/ ResolveStations

SpecResolve == InitResolve /\ [][NextResolve]_vars

(***************************************************************************)
(* Vocabulary of the properties, written from their statements and not     *)
(* from the handlers above.                                                *)
(***************************************************************************)
\* a dashboard request has been resolved against an upstream outcome
Answered == out.path = "/" /\ IsSome(out.upstream)
Upstream == out.upstream.val
Quote == out.data.val

Placeholder ==
    [station_name |-> StationLabel, e5 |-> 0, e10 |-> 0, diesel |-> 0,
     updated |-> Dash]

FieldOf(v, key) ==
    IF v.type = "Object" /\ key \in DOMAIN v.o THEN v.o[key] ELSE Absent

Parsed == Upstream.kind = "Response" /\ Upstream.body.type \notin {"NotJson", "ReadError"}
Http2xx == Upstream.kind = "Response" /\ Upstream.status \in 200..299
OkTrue == Parsed /\ FieldOf(Upstream.body, "ok") = JBool(TRUE)
HasList == Parsed /\ FieldOf(Upstream.body, "stations").type = "Array"
StationList == FieldOf(Upstream.body, "stations").a

\* ok = true and a station list, in a successful HTTP response
TrustedList == Http2xx /\ OkTrue /\ HasList

HasLenz(v) == v.type = "String" /\ contains(to_lowercase(v.s), Lenz)
MatchesFilter(st) == HasLenz(FieldOf(st, "name")) \/ HasLenz(FieldOf(st, "brand"))
SomeMatch == \E i \in 1..Len(StationList) : MatchesFilter(StationList[i])
IsFirstMatch(i) ==
    /\ MatchesFilter(StationList[i])
    /\ \A j \in 1..(i - 1) : ~MatchesFilter(StationList[j])
FirstMatch == StationList[CHOOSE i \in 1..Len(StationList) : IsFirstMatch(i)]

PriceKeys == {"e5", "e10", "diesel"}
Numeric(st, key) == FieldOf(st, key).type = "Number"
PriceOrZero(st, key) == IF Numeric(st, key) THEN FieldOf(st, key).n ELSE 0

(***************************************************************************)
(* Properties.                                                             *)
(***************************************************************************)
\* C1: whatever the upstream call ends in (network error, timeout, a body
\* that is not JSON, JSON of the wrong shape, a well-formed response), the
\* request is answered with the rendered dashboard page built from exactly
\* one PriceData whose label, three prices and freshness label are all set.
C1_ResolutionTotal ==
    Answered =>
        /\ out.page = "dashboard"
        /\ IsSome(out.data)
        /\ out.data.val.station_name = StationLabel
        /\ \A k \in PriceKeys : out.data.val[k] \in Int
        /\ out.data.val.updated \in {Live, Dash}

C1_Witness ==
    /\ Answered
    /\ Upstream = Response(200, NotJson)
    /\ out.page = "dashboard"
    /\ out.data = Some(Placeholder)

\* C2: when the source fails (network error, non-2xx status, malformed JSON,
\* missing "ok": true or missing station list) the quote is the zero-filled
\* placeholder; a non-2xx response never yields prices or "Live".
C2_FailureGivesPlaceholder ==
    (Answered /\ ~(Http2xx /\ OkTrue /\ HasList)) => Quote = Placeholder

\* C3: with ok = true and a station list, the quote is built from the first
\* station in list order that matches the filter by name or brand: earlier
\* stations that do not match are skipped, a later match is never preferred,
\* and the quote's e5, e10 and diesel are those of that station.
C3_FirstMatchUsed ==
    (Answered /\ TrustedList /\ SomeMatch) =>
        \E i \in 1..Len(StationList) :
            /\ IsFirstMatch(i)
            /\ \A k \in PriceKeys : Quote[k] = PriceOrZero(StationList[i], k)

\* C4: with an empty station list, or one in which no station matches the
\* filter, resolution ends in the placeholder quote; the program has no
\* nationwide-average source, so the list call is the only call made.
C4_NoMatchGivesPlaceholder ==
    (Answered /\ TrustedList /\ ~SomeMatch) =>
        /\ Quote = Placeholder
        /\ out.calls = <<"list.php">>

C4_Witness ==
    /\ Answered
    /\ TrustedList
    /\ Len(StationList) > 0
    /\ ~SomeMatch
    /\ Quote = Placeholder

\* C5: for the selected station each price field is taken on its own: a
\* field that is missing or not a number becomes 0, every field that is
\* numeric keeps its upstream value, and a bad price field never makes the
\* result the placeholder quote.
C5_FieldsIndependent ==
    (Answered /\ TrustedList /\ SomeMatch) =>
        /\ \A k \in PriceKeys :
              IF Numeric(FirstMatch, k)
              THEN Quote[k] = FieldOf(FirstMatch, k).n
              ELSE Quote[k] = 0
        /\ Quote.updated = Live

\* C6: a payload whose "ok" is false, absent or not a boolean is not
\* trusted: the quote is the placeholder even when the payload carries a
\* matching station with valid prices.
C6_OkGates ==
    (Answered /\ Parsed /\ ~OkTrue) => Quote = Placeholder

C6_Witness ==
    /\ Answered
    /\ Parsed
    /\ FieldOf(Upstream.body, "ok") = JBool(FALSE)
    /\ HasList
    /\ SomeMatch
    /\ \A k \in PriceKeys : Numeric(FirstMatch, k)
    /\ Quote = Placeholder

\* C7: a page request makes at most two upstream calls, never the same
\* source twice, whatever the outcome; a suspended handler waits on the one
\* call it has issued.
CallsWithinBudget(calls) ==
    /\ Len(calls) <= 2
    /\ \A i, j \in 1..Len(calls) : calls[i] = calls[j] => i = j

C7_CallBudget ==
    /\ CallsWithinBudget(out.calls)
    /\ \A h \in BagToSet(inflight) : CallsWithinBudget(h.calls) /\ Len(h.calls) >= 1

C7_Witness ==
    /\ Answered
    /\ Upstream = NetworkError
    /\ out.calls = <<"list.php">>
    /\ BagCardinality(inflight) > 0

\* C8: a resolution that receives the same upstream outcome as an earlier
\* one returns the same quote, whatever was requested in between.
C8_Deterministic ==
    (Answered /\ rec.upstream = out.upstream) => out.data = rec.data

C8_Witness ==
    /\ Answered
    /\ loggedIn
    /\ rec.upstream = out.upstream
    /\ rec.who # out.who
    /\ out.data = rec.data
    /\ Upstream = NetworkError

\* C9: with ok = true and at least one station matching by name or by
\* brand, resolution succeeds with freshness "Live", also when the station
\* matches through its brand alone and has no usable name.
C9_MatchGivesLive ==
    (Answered /\ TrustedList /\ SomeMatch) => Quote.updated = Live /\ Quote # Placeholder

\* C10: a request to / without a cookie containing the token gets the login
\* page and no upstream call; the cookie is set only by a /login with the
\* configured password; a wrong password gets neither cookie nor redirect;
\* the browser, replaying only cookies it was sent, sees prices only after
\* a successful login.
ConfiguredPassword ==
    IF env.DASHBOARD_PASSWORD = None THEN "911930" ELSE env.DASHBOARD_PASSWORD.val

C10_PasswordGate ==
    /\ (out.path = "/" /\ ~out.carried) =>
           out.page = "login" /\ out.calls = << >> /\ IsNone(out.data)
    /\ \A h \in BagToSet(inflight) : h.carried
    /\ IsSome(out.set_cookie) =>
           out.path = "/login" /\ out.password = ConfiguredPassword
    /\ (out.path = "/login" /\ out.password # ConfiguredPassword) =>
           IsNone(out.set_cookie) /\ out.page # "redirect"
    /\ (out.who = "browser" /\ IsSome(out.data)) => loggedIn
    /\ (\E h \in BagToSet(inflight) : h.who = "browser") => loggedIn

C10_Witness ==
    /\ loggedIn
    /\ out.who = "browser"
    /\ out.page = "dashboard"
    /\ Quote.updated = Live

====
